---- MODULE Spec2Model ----
(***************************************************************************)
(* Scopus author-publication client.                                       *)
(*                                                                         *)
(*   src/some.py     search_all_documents (paginated search),              *)
(*                   get_abstract_details (detail fetch), both wrapped in  *)
(*                   st.cache_data(ttl=3600), and the per-entry            *)
(*                   normalization loop of the page script                 *)
(*   src/scopus2.py  parse_document, save_to_db (SQLite upsert)            *)
(*   src/scopus.py   the journal-set pagination loop (it breaks on an      *)
(*                   empty page; it has no state of its own here)          *)
(*                                                                         *)
(* Four state machines share the variable tuple; each specification runs   *)
(* one of them and leaves the others in their initial state.               *)
(***************************************************************************)
EXTENDS Integers, Sequences, FiniteSets, TLC

(***************************************************************************)
(* Bounds of the model.                                                    *)
(***************************************************************************)
MaxTotal == 3      \* largest totalResults a response reports
MaxPage == 2       \* largest page: entries carried, itemsPerPage reported
MaxRequests == 3   \* search requests of one call (the loop need not end)
MaxBatch == 2      \* entries of a batch handed to the per-entry loop
MaxWindows == 1    \* ttl windows the clock runs through

\* st.cache_data(ttl=3600)                              (some.py:19,43,96)
TTL == 3600

VARIABLES
    \* ---- search_all_documents (src/some.py:44-93)
    pc,             \* "idle" | "loop" | "done"
    scopus_id,      \* the argument; 0 stands for the empty string
    start,          \* search_params['start']
    total_results,  \* total_results
    all_entries,    \* all_entries: sequence of <<request number, index in page>>
    \* ---- history of the HTTP search traffic of the current call
    requests,       \* offsets of the search requests issued, in order
    pageLens,       \* number of entries of each successful response, in order
    first,          \* totalResults / itemsPerPage of the first response
    consistent,     \* every response so far agreed with one total and page size
    failed,         \* the last request raised RequestException
    lastEmpty,      \* the last response was successful with no entries
    \* ---- the per-entry loop of the page script (src/some.py:144-216)
    bpc,                      \* "idle" | "loop" | "done" | "raised"
    entries,                  \* entries: the batch search_all_documents returned
    idx,                      \* position of the entry the loop handles next
    author_names_list,        \* the script-level name bound at some.py:178
    documents_data_for_table, \* the summary rows appended at some.py:188
    full_documents_data,      \* the eid-keyed details assigned at some.py:199
    built,                    \* history: the full records in the order built
    fetchLog,                 \* history: the get_abstract_details calls, in order
    \* ---- st.cache_data around the two functions (src/some.py:43,96)
    now,        \* the clock, in seconds
    cache,      \* (function, input) -> the memoized return value and its time
    lastKey,    \* the (function, input) of the latest call
    http,       \* the latest call ran the function body (issued its requests)
    ret,        \* what the latest call returned
    ran,        \* history: per key, the latest run of the function body
    \* ---- save_to_db (src/scopus2.py:60-100)
    dpc,          \* "idle" | "returned" | "raised": how the latest call ended
    conn,         \* "none" | "open" | "closed": the connection of the latest call
    doc_info,     \* the argument of the latest call
    tableExists,  \* the documents table has been created
    documents,    \* the committed rows of the documents table
    written,      \* history: per id, the record of the latest committed write
    lastDoc,      \* history: the record of the latest committed write
    prevDoc,      \* history: the record of the committed write before that one
    before        \* history: the table as the latest committed write found it

searchVars == <<pc, scopus_id, start, total_results, all_entries,
                requests, pageLens, first, consistent, failed, lastEmpty>>

batchVars == <<bpc, entries, idx, author_names_list, documents_data_for_table,
               full_documents_data, built, fetchLog>>

cacheVars == <<now, cache, lastKey, http, ret, ran>>

dbVars == <<dpc, conn, doc_info, tableExists, documents, written, lastDoc,
            prevDoc, before>>

vars == <<searchVars, batchVars, cacheVars, dbVars>>

\* What each machine leaves alone.
notSearch == <<batchVars, cacheVars, dbVars>>
notBatch == <<searchVars, cacheVars, dbVars>>
notCache == <<searchVars, batchVars, dbVars>>
notDb == <<searchVars, batchVars, cacheVars>>

Min(a, b) == IF a < b THEN a ELSE b

NoPage == [total |-> -1, ipp |-> -1]

(***************************************************************************)
(* search_all_documents                                                    *)
(***************************************************************************)

\* The entries of the k-th response: n entries, tagged by request and position.
PageEntries(k, n) == [i \in 1..n |-> <<k, i>>]

\* all_entries.extend(entries)                                  (some.py:73)
Extend(all, page) == all \o page

\* if start_index + items_per_page < total_results              (some.py:83)
MorePages(start_index, items_per_page, total) ==
    start_index + items_per_page < total

\* search_params['start'] += items_per_page                     (some.py:84)
\* (faulty variant: a fixed step)
AdvanceWrong(s, items_per_page) == s + 1
Advance(s, items_per_page) == s + items_per_page

\* except RequestException: st.error(...); break; return all_entries
\* The value returned when a page request fails.             (some.py:88-93)
\* (faulty variant: the pages fetched so far are dropped)
OnErrorWrong(all) == << >>
OnError(all) == all

InitSearch ==
    /\ pc = "idle"
    /\ scopus_id = 0
    /\ start = 0
    /\ total_results = 1
    /\ all_entries = << >>
    /\ requests = << >>
    /\ pageLens = << >>
    /\ first = NoPage
    /\ consistent = TRUE
    /\ failed = FALSE
    /\ lastEmpty = FALSE

\* A call with an empty id returns [] at once.               (some.py:48-49)
CallEmpty ==
    /\ pc \in {"idle", "done"}
    /\ pc' = "done"
    /\ scopus_id' = 0
    /\ all_entries' = << >>
    /\ start' = 0
    /\ total_results' = 1
    /\ requests' = << >>
    /\ pageLens' = << >>
    /\ first' = NoPage
    /\ consistent' = TRUE
    /\ failed' = FALSE
    /\ lastEmpty' = FALSE
    /\ UNCHANGED notSearch

\* A call with an id: the locals before the loop.            (some.py:51-64)
Call ==
    /\ pc \in {"idle", "done"}
    /\ pc' = "loop"
    /\ scopus_id' = 1
    /\ all_entries' = << >>
    /\ start' = 0
    /\ total_results' = 1
    /\ requests' = << >>
    /\ pageLens' = << >>
    /\ first' = NoPage
    /\ consistent' = TRUE
    /\ failed' = FALSE
    /\ lastEmpty' = FALSE
    /\ UNCHANGED notSearch

\* One iteration of the while loop whose request succeeds: the response
\* carries n entries and the three opensearch counters.      (some.py:66-87)
PageOk(n, tot, ipp, si) ==
    /\ pc = "loop"
    /\ start < total_results
    /\ Len(requests) < MaxRequests
    /\ requests' = Append(requests, start)
    /\ pageLens' = Append(pageLens, n)
    /\ all_entries' = Extend(all_entries, PageEntries(Len(requests) + 1, n))
    /\ total_results' = tot
    /\ IF MorePages(si, ipp, tot)
          THEN /\ start' = Advance(start, ipp)
               /\ pc' = "loop"
          ELSE /\ start' = start
               /\ pc' = "done"
    /\ first' = IF first = NoPage THEN [total |-> tot, ipp |-> ipp] ELSE first
    /\ consistent' = /\ consistent
                     /\ tot = first'.total
                     /\ ipp = first'.ipp
                     /\ si = start
                     /\ n = Min(ipp, tot - start)
    /\ lastEmpty' = (n = 0)
    /\ UNCHANGED <<scopus_id, failed>>
    /\ UNCHANGED notSearch

\* One iteration whose request raises RequestException.   (some.py:68-69,88-93)
PageFail ==
    /\ pc = "loop"
    /\ start < total_results
    /\ Len(requests) < MaxRequests
    /\ requests' = Append(requests, start)
    /\ all_entries' = OnError(all_entries)
    /\ failed' = TRUE
    /\ lastEmpty' = FALSE
    /\ pc' = "done"
    /\ UNCHANGED <<scopus_id, start, total_results, pageLens, first, consistent>>
    /\ UNCHANGED notSearch

\* The while condition is false: fall out of the loop.       (some.py:66,92-93)
LoopExit ==
    /\ pc = "loop"
    /\ ~(start < total_results)
    /\ pc' = "done"
    /\ UNCHANGED <<scopus_id, start, total_results, all_entries, requests,
                   pageLens, first, consistent, failed, lastEmpty>>
    /\ UNCHANGED notSearch

NextSearch ==
    \/ CallEmpty
    \/ Call
    \/ \E n \in 0..MaxPage, tot \in 0..MaxTotal, ipp \in 0..MaxPage :
          \* startIndex echoes the offset, or is missing and read as 0
          \E si \in {start, 0} : PageOk(n, tot, ipp, si)
    \/ PageFail
    \/ LoopExit


(***************************************************************************)
(* The per-entry loop of the page script          (src/some.py:144-216)    *)
(*                                                                         *)
(* Python mappings are functions on a set of string keys; a key that is    *)
(* missing is not in the DOMAIN.  Every scalar of an entry or a detail     *)
(* record is a string, as in the JSON the service returns.                 *)
(***************************************************************************)

None == "None"
NA == "N/A"
EmptyDict == [k \in {} |-> k]

\* dict.get(k, d)
Get(m, k, d) == IF k \in DOMAIN m THEN m[k] ELSE d

\* str.lower() on the values the correspondence flag takes.
Lower(str) ==
    CASE str = "True" -> "true"
      [] str = "TRUE" -> "true"
      [] OTHER -> str

\* int(cited_by) on the decimal strings of the model.
ToInt(str) ==
    CASE str = "0" -> 0
      [] str = "7" -> 7

Eids == {"e1", "e2"}

\* The search entries of the model: each key present or absent.
RawEntries ==
    {a @@ b :
        a \in {EmptyDict} \cup {("eid" :> e) : e \in Eids},
        b \in {EmptyDict,
                ("dc:title" :> "Title"),
                ("dc:title" :> "Title") @@ ("citedby-count" :> "7")}}

Batches == UNION {[1..n -> RawEntries] : n \in 1..MaxBatch}

AuthKim == ("ce:indexed-name" :> "Kim J.") @@ ("@corresponding" :> "True")
AuthLee == ("ce:indexed-name" :> "Lee S.")
AuthAnon == ("@corresponding" :> "false")

\* The abstracts-retrieval-response objects of the model.
Details ==
    { EmptyDict,
      ("coredata" :> ("dc:description" :> "Abstract"))
          @@ ("authors" :> ("author" :> <<AuthKim>>)),
      ("coredata" :> ("description" :> "Alt"))
          @@ ("authors" :> ("author" :> <<AuthLee, AuthKim>>)),
      ("authors" :> ("author" :> <<AuthAnon>>)) }

\* What the abstract request can come to: a RequestException, or a JSON body
\* with or without the abstracts-retrieval-response key.
AbstractResponses ==
    {[error |-> TRUE, json |-> EmptyDict], [error |-> FALSE, json |-> EmptyDict]}
    \cup {[error |-> FALSE, json |-> ("abstracts-retrieval-response" :> d)] :
             d \in Details}

Return(v) == [raised |-> FALSE, value |-> v]
Raise == [raised |-> TRUE, value |-> EmptyDict]

\* except RequestException: st.warning(...); return {}       (some.py:110-112)
\* (faulty variant: the exception is let through)
DetailOnErrorWrong == Raise
DetailOnError == Return(EmptyDict)

\* get_abstract_details(eid), given what its request comes to. (some.py:97-112)
GetAbstractDetails(eid, resp) ==
    IF eid = None THEN Return(EmptyDict)
    ELSE IF resp.error THEN DetailOnError
    ELSE Return(Get(resp.json, "abstracts-retrieval-response", EmptyDict))

\* a or b or 'N/A' on optional strings                       (some.py:169-173)
FirstTruthy(a, b) == IF a # None THEN a ELSE IF b # None THEN b ELSE NA

\* abstract_text                                             (some.py:169-173)
AbstractText(abstract_data) ==
    LET core == Get(abstract_data, "coredata", EmptyDict)
    IN  FirstTruthy(Get(core, "dc:description", None), Get(core, "description", None))

\* authors_raw                                                  (some.py:175)
AuthorsRaw(abstract_data) ==
    Get(Get(abstract_data, "authors", EmptyDict), "author", << >>)

\* author_names_list                                            (some.py:178)
AuthorNames(authors_raw) ==
    [k \in 1..Len(authors_raw) |-> Get(authors_raw[k], "ce:indexed-name", NA)]

\* first_author                                                 (some.py:180)
FirstAuthor(names) == IF Len(names) > 0 THEN names[1] ELSE NA

\* corresponding_author: the first author flagged "true"    (some.py:182-185)
CorrespondingAuthor(authors_raw) ==
    LET flagged == {k \in 1..Len(authors_raw) :
                       Lower(Get(authors_raw[k], "@corresponding", "")) = "true"}
    IN  IF flagged = {} THEN NA
        ELSE Get(authors_raw[CHOOSE k \in flagged : \A j \in flagged : k <= j],
                 "ce:indexed-name", NA)

\* A name of the script: unbound until its first assignment.
Unbound == [bound |-> FALSE, value |-> << >>]
Bound(v) == [bound |-> TRUE, value |-> v]

\* eid = entry.get('eid') or entry.get('full-abstract-retrieval', {}).get('eid')
\* (no entry of the model has the second key)                   (some.py:152)
EidOf(entry) == Get(entry, "eid", None)

\* The row appended to documents_data_for_table             (some.py:188-196)
\* Journal Name, Published Date, Document Type and DOI are read as Title is.
SummaryRow(entry) ==
    [Title |-> Get(entry, "dc:title", NA),
     Citations |-> ToInt(Get(entry, "citedby-count", "0")),
     EID |-> EidOf(entry)]

\* The name author_names_list after the body of "if eid:" ran or was skipped:
\* it is assigned only inside the branch.                   (some.py:167-178)
NamesAfter(entry, abstract_data, anl) ==
    IF EidOf(entry) # None
        THEN Bound(AuthorNames(AuthorsRaw(abstract_data)))
        ELSE anl

\* The mapping stored in full_documents_data[eid]           (some.py:199-213)
FullRecord(entry, abstract_data, anl) ==
    LET has == EidOf(entry) # None
        raw == IF has THEN AuthorsRaw(abstract_data) ELSE << >>
    IN  [Title |-> Get(entry, "dc:title", NA),
         Citations |-> ToInt(Get(entry, "citedby-count", "0")),
         EID |-> EidOf(entry),
         Abstract |-> IF has THEN AbstractText(abstract_data) ELSE NA,
         AuthorsList |-> anl.value,
         FirstAuthor |-> IF has THEN FirstAuthor(AuthorNames(raw)) ELSE NA,
         CorrespondingAuthor |-> IF has THEN CorrespondingAuthor(raw) ELSE NA]

InitBatch ==
    /\ bpc = "idle"
    /\ entries = << >>
    /\ idx = 1
    /\ author_names_list = Unbound
    /\ documents_data_for_table = << >>
    /\ full_documents_data = EmptyDict
    /\ built = << >>
    /\ fetchLog = << >>

\* A run of the script reaches the loop with a non-empty batch; the names of
\* the script start unbound.  Every run of the script starts afresh, so one
\* behaviour is one run.                                    (some.py:133-149)
StartBatch(es) ==
    /\ bpc = "idle"
    /\ bpc' = "loop"
    /\ entries' = es
    /\ idx' = 1
    /\ author_names_list' = Unbound
    /\ documents_data_for_table' = << >>
    /\ full_documents_data' = EmptyDict
    /\ built' = << >>
    /\ fetchLog' = << >>
    /\ UNCHANGED notBatch

\* One iteration of "for i, entry in enumerate(entries)", given what the
\* abstract request of this entry comes to.                 (some.py:151-216)
ProcessEntry(resp) ==
    /\ bpc = "loop"
    /\ idx <= Len(entries)
    /\ LET entry == entries[idx]
           eid == EidOf(entry)
           call == GetAbstractDetails(eid, resp)
           anl == NamesAfter(entry, call.value, author_names_list)
       IN  /\ fetchLog' = IF eid # None
                             THEN Append(fetchLog, [pos |-> idx, eid |-> eid,
                                                    ok |-> ~resp.error,
                                                    value |-> call.value])
                             ELSE fetchLog
           /\ IF eid # None /\ call.raised
                 THEN \* the exception leaves the script
                      /\ bpc' = "raised"
                      /\ UNCHANGED <<idx, author_names_list,
                                     documents_data_for_table,
                                     full_documents_data, built>>
                 ELSE /\ author_names_list' = anl
                      /\ documents_data_for_table' =
                             Append(documents_data_for_table, SummaryRow(entry))
                      /\ IF ~anl.bound
                            THEN \* NameError at "Authors List": author_names_list
                                 /\ bpc' = "raised"
                                 /\ UNCHANGED <<idx, full_documents_data, built>>
                            ELSE LET rec == FullRecord(entry, call.value, anl)
                                 IN  /\ full_documents_data' =
                                            (eid :> rec) @@ full_documents_data
                                     /\ built' = Append(built, rec)
                                     /\ idx' = idx + 1
                                     /\ bpc' = IF idx = Len(entries)
                                                  THEN "done" ELSE "loop"
    /\ UNCHANGED entries
    /\ UNCHANGED notBatch

NextBatch ==
    \/ \E es \in Batches : StartBatch(es)
    \/ \E resp \in AbstractResponses : ProcessEntry(resp)


(***************************************************************************)
(* st.cache_data(ttl=3600) around search_all_documents and                 *)
(* get_abstract_details                           (src/some.py:43-44,96-97) *)
(*                                                                         *)
(* A call is atomic here: the clock does not move while a body runs.  The  *)
(* body of search_all_documents is the machine above; for the cache only   *)
(* what it returns, and whether a page request failed, matters.            *)
(***************************************************************************)

\* The instants the clock can show: around each multiple of the ttl.
Times == {t \in {k * TTL + d : k \in 0..MaxWindows, d \in {-1, 0, 1}} : t >= 0}

SearchKey(id) == <<"search_all_documents", id>>
DetailKey(eid) == <<"get_abstract_details", eid>>
CacheKeys == {SearchKey("a1"), DetailKey("e1"), DetailKey("e2")}

\* What a run of search_all_documents' body comes to: the list it returns,
\* complete or cut short by a failed page request.            (some.py:66-93)
SearchOutcomes ==
    {[failed |-> FALSE, value |-> PageEntries(1, 1)],
     [failed |-> FALSE, value |-> PageEntries(1, 2)],
     [failed |-> TRUE, value |-> OnError(PageEntries(1, 1))],
     [failed |-> TRUE, value |-> OnError(<< >>)]}

\* What the abstract request comes to in the cache machine.
CacheResponses ==
    {r \in AbstractResponses :
        r.json \in {EmptyDict,
                    ("abstracts-retrieval-response" :>
                        (("coredata" :> ("dc:description" :> "Abstract"))
                            @@ ("authors" :> ("author" :> <<AuthKim>>))))}}

NoEntry == [present |-> FALSE, at |-> 0, value |-> << >>]
NoRun == [ran |-> FALSE, ok |-> FALSE, at |-> 0, value |-> << >>]

\* A stored value is served while its age is below the ttl.
\* (faulty variant: a stored value never expires)
FreshForEver(e, t) == e.present
Fresh(e, t) == e.present /\ t - e.at < TTL

\* The decorator stores whatever the function returned.
Memoize(e, v, t) == [present |-> TRUE, at |-> t, value |-> v]

InitCache ==
    /\ now = 0
    /\ cache = [k \in CacheKeys |-> NoEntry]
    /\ lastKey = << >>
    /\ http = FALSE
    /\ ret = << >>
    /\ ran = [k \in CacheKeys |-> NoRun]

\* Time passes.
Tick(t) ==
    /\ t > now
    /\ now' = t
    /\ UNCHANGED <<cache, lastKey, http, ret, ran>>
    /\ UNCHANGED notCache

\* A call of a decorated function: a fresh stored value is returned without
\* running the body; otherwise the body runs (issuing its requests) and what
\* it returns, v, is stored.  ok tells whether the body's requests succeeded.
CachedCall(key, v, ok) ==
    /\ lastKey' = key
    /\ IF Fresh(cache[key], now)
          THEN /\ http' = FALSE
               /\ ret' = cache[key].value
               /\ UNCHANGED <<cache, ran>>
          ELSE /\ http' = TRUE
               /\ ret' = v
               /\ cache' = [cache EXCEPT ![key] = Memoize(cache[key], v, now)]
               /\ ran' = [ran EXCEPT ![key] =
                             [ran |-> TRUE, ok |-> ok, at |-> now, value |-> v]]
    /\ UNCHANGED now
    /\ UNCHANGED notCache

\* search_all_documents(id) through the decorator.            (some.py:43-93)
CachedSearch(id, out) == CachedCall(SearchKey(id), out.value, ~out.failed)

\* get_abstract_details(eid) through the decorator.          (some.py:96-112)
CachedDetail(eid, resp) ==
    CachedCall(DetailKey(eid), GetAbstractDetails(eid, resp).value, ~resp.error)

NextCache ==
    \/ \E t \in Times : Tick(t)
    \/ \E out \in SearchOutcomes : CachedSearch("a1", out)
    \/ \E eid \in {"e1", "e2"}, resp \in CacheResponses : CachedDetail(eid, resp)


(***************************************************************************)
(* save_to_db                                     (src/scopus2.py:60-100)  *)
(*                                                                         *)
(* A row is the record's id and its title; the other ten columns are       *)
(* bound from doc_info exactly as title is.  A call runs connect, CREATE   *)
(* TABLE IF NOT EXISTS, INSERT OR REPLACE, commit and close in a straight  *)
(* line; any of the first four can raise (sqlite3.Error, or KeyError while *)
(* the parameters are read), and the exception leaves the function.        *)
(***************************************************************************)

DocIds == {"s1", "s2"}
Titles == {"T1", "T2"}
DocInfos == [scopus_id : DocIds, title : Titles]
NoDoc == [scopus_id |-> "None", title |-> "None"]

\* Where a call can raise; "none" is the straight path.
FailPoints == {"none", "connect", "create", "insert", "commit"}

\* INSERT OR REPLACE INTO documents, scopus_id being the PRIMARY KEY: the row
\* with the same key, if any, is deleted and the new row inserted.
\*                                                      (scopus2.py:64-96)
\* (faulty variant: no key, the row is added)
InsertPlain(rows, doc) == rows \cup {doc}
InsertOrReplace(rows, doc) ==
    {r \in rows : r.scopus_id # doc.scopus_id} \cup {doc}

\* The connection when the call is left: conn.close() is the last statement
\* of the straight path and of no other.                 (scopus2.py:61,99)
ConnAtExit(failAt) ==
    CASE failAt = "connect" -> "none"
      [] failAt = "none" -> "closed"
      [] OTHER -> "open"

InitDb ==
    /\ dpc = "idle"
    /\ conn = "none"
    /\ doc_info = NoDoc
    /\ tableExists = FALSE
    /\ documents = {}
    /\ written = [id \in DocIds |-> NoDoc]
    /\ lastDoc = NoDoc
    /\ prevDoc = NoDoc
    /\ before = {}

\* One call of save_to_db(doc), raising at failAt or not at all.  CREATE
\* TABLE takes effect when it runs; the inserted row reaches the table at
\* commit, and is lost when the call raises before or in it.
\*                                                      (scopus2.py:60-100)
SaveToDb(doc, failAt) ==
    /\ doc_info' = doc
    /\ conn' = ConnAtExit(failAt)
    /\ dpc' = IF failAt = "none" THEN "returned" ELSE "raised"
    /\ tableExists' = (tableExists \/ failAt \in {"none", "insert", "commit"})
    /\ IF failAt = "none"
          THEN /\ documents' = InsertOrReplace(documents, doc)
               /\ written' = [written EXCEPT ![doc.scopus_id] = doc]
               /\ lastDoc' = doc
               /\ prevDoc' = lastDoc
               /\ before' = documents
          ELSE UNCHANGED <<documents, written, lastDoc, prevDoc, before>>
    /\ UNCHANGED notDb

NextDb == \E doc \in DocInfos, failAt \in FailPoints : SaveToDb(doc, failAt)

Init == InitSearch /\ InitBatch /\ InitCache /\ InitDb

SpecSearch == Init /\ [][NextSearch]_vars

SpecBatch == Init /\ [][NextBatch]_vars

SpecCache == Init /\ [][NextCache]_vars

SpecDb == Init /\ [][NextDb]_vars

(***************************************************************************)
(* Properties of search_all_documents                                      *)
(***************************************************************************)

Ceil(t, p) == (t + p - 1) \div p

\* The offsets 0, P, 2P, ... of ceil(T/P) requests.
OffsetsOf(t, p) == [k \in 1..Ceil(t, p) |-> (k - 1) * p]

RECURSIVE ConcatPages(_, _)
\* The entries of pages 1..k, in order, given the length of each page.
ConcatPages(lens, k) ==
    IF k = 0 THEN << >>
    ELSE ConcatPages(lens, k - 1) \o PageEntries(k, lens[k])

\* C1: when no request fails and every response reports the same total T >= 1
\* and page size P >= 1, echoes the requested offset and carries
\* min(P, T - offset) entries, the call issues exactly ceil(T/P) requests, at
\* offsets 0, P, 2P, ..., and returns T entries.
C1_RequestsAndLength ==
    (/\ pc = "done"
     /\ scopus_id # 0
     /\ ~failed
     /\ consistent
     /\ first.total >= 1
     /\ first.ipp >= 1)
    => /\ requests = OffsetsOf(first.total, first.ipp)
       /\ Len(all_entries) = first.total

\* A consistent run of three entries in pages of two has returned.
C1_Witness ==
    /\ pc = "done"
    /\ ~failed
    /\ consistent
    /\ first = [total |-> 3, ipp |-> 2]
    /\ requests = <<0, 2>>
    /\ Len(all_entries) = 3

\* C2: when the k-th request fails the call returns (it does not raise) the
\* concatenation, in order, of the entries of pages 1..k-1, and the failed
\* request is the last one issued.
C2_PartialOnFailure ==
    failed =>
        /\ pc = "done"
        /\ Len(requests) = Len(pageLens) + 1
        /\ all_entries = ConcatPages(pageLens, Len(pageLens))

\* The third request failed after two pages that carried entries.
C2_Witness ==
    /\ failed
    /\ pc = "done"
    /\ Len(requests) = 3
    /\ pageLens = <<2, 1>>
    /\ all_entries = <<<<1, 1>>, <<1, 2>>, <<2, 1>>>>

\* C3: after a successful page with no entries the call has returned (no
\* further request follows), whatever totalResults says.
C3_EmptyPageStops == lastEmpty => pc = "done"

\* C4: when the first response reports totalResults = 0 the call returns the
\* empty sequence after exactly one request.
C4_ZeroTotalEmpty ==
    (pc = "done" /\ first.total = 0)
    => (all_entries = << >> /\ Len(requests) = 1)

\* The request-count half of C4 on its own: a first response with
\* totalResults = 0 ends the call after that one request.
ZeroTotalOneRequest ==
    first.total = 0 => (pc = "done" /\ Len(requests) = 1)

(***************************************************************************)
(* Properties of the per-entry loop                                        *)
(***************************************************************************)

\* No field of a built record is Python's None.
Complete(rec) ==
    /\ rec.Title # None
    /\ rec.EID # None
    /\ rec.Abstract # None
    /\ rec.FirstAuthor # None
    /\ rec.CorrespondingAuthor # None

\* C5: building the normalized record never raises, for any entry (the empty
\* mapping included) and any detail record (the empty one included), and no
\* field of a built record is absent.
C5_NormalizeTotal ==
    /\ bpc # "raised"
    /\ \A k \in 1..Len(built) : Complete(built[k])

AllHaveEid(es) == \A k \in 1..Len(es) : EidOf(es[k]) # None

C7_TimeBoundedMemo ==
    [][\A key \in CacheKeys :
          (now' = now /\ lastKey' = key) =>
              LET p == ran[key]
              IN  /\ (p.ran /\ p.ok /\ now - p.at < TTL) =>
                        (~http' /\ ret' = p.value /\ ran' = ran)
                  /\ (p.ran /\ now - p.at >= TTL) =>
                        (http' /\ ran'[key].at = now)]_vars

\* A detail call was answered from the store 3599 s after the successful
\* run that filled it.
C7_Witness ==
    /\ lastKey = DetailKey("e1")
    /\ ~http
    /\ ran[lastKey].ok
    /\ now - ran[lastKey].at = TTL - 1
    /\ ret = ran[lastKey].value
    /\ ret # EmptyDict

\* C10: a failure result is never served from the store: whenever the latest
\* run of the body for the input of the latest call failed, that call itself
\* ran the body.
C10_FailuresNotMemoized ==
    \A key \in CacheKeys :
        (lastKey = key /\ ran[key].ran /\ ~ran[key].ok) => http

(***************************************************************************)
(* Properties of save_to_db                                                *)
(***************************************************************************)

RowsOf(id) == {r \in documents : r.scopus_id = id}

\* C8: the table holds exactly one row per id written, carrying the values of
\* the latest committed write of that id, and a write of the record the
\* previous write wrote leaves the table as it found it.
C8_UpsertIdempotent ==
    /\ \A id \in DocIds :
          RowsOf(id) = IF written[id] = NoDoc THEN {} ELSE {written[id]}
    /\ (lastDoc # NoDoc /\ prevDoc = lastDoc) => documents = before

\* The record s1/T2 replaced s1/T1 and was then written a second time.
C8_Witness ==
    /\ dpc = "returned"
    /\ lastDoc = [scopus_id |-> "s1", title |-> "T2"]
    /\ prevDoc = lastDoc
    /\ before = documents
    /\ documents = {[scopus_id |-> "s1", title |-> "T2"],
                    [scopus_id |-> "s2", title |-> "T1"]}

\* C9: when a call of save_to_db has been left, by return or by exception,
\* the connection it opened has been closed.
C9_HandleReleased == dpc \in {"returned", "raised"} => conn # "open"

\* The straight path does close the connection.
ClosedOnReturn == dpc = "returned" => conn = "closed"

(***************************************************************************)
(* Independence of the records of a batch                                  *)
(***************************************************************************)

\* The detail record fetched for the entry at position k, the empty one when
\* no fetch was made for it.
OwnDetail(k) ==
    LET hits == {j \in 1..Len(fetchLog) : fetchLog[j].pos = k}
    IN  IF hits = {} THEN EmptyDict ELSE fetchLog[CHOOSE j \in hits : TRUE].value

\* The author names of the entry at position k, from its own detail record.
OwnNames(k) ==
    IF EidOf(entries[k]) # None THEN AuthorNames(AuthorsRaw(OwnDetail(k))) ELSE << >>

\* C11: the record built for the entry at position k is determined by that
\* entry and its own detail record: every field, the author-name list
\* included, is what those two give, whatever the other entries of the batch
\* are (an entry without eid after one with an eid included).
C11_RecordFromOwnEntry ==
    \A k \in 1..Len(built) :
        built[k] = FullRecord(entries[k], OwnDetail(k), Bound(OwnNames(k)))

\* Every field but the author-name list does come from the entry's own data.
OtherFieldsFromOwnEntry ==
    \A k \in 1..Len(built) :
        LET own == FullRecord(entries[k], OwnDetail(k), Bound(OwnNames(k)))
        IN  [own EXCEPT !.AuthorsList = << >>]
                = [built[k] EXCEPT !.AuthorsList = << >>]

====
